---- MODULE Spec2Model ----
(***************************************************************************)
(* SafeSpeak (App component): the translate -> synthesize -> play pipeline *)
(* and the audio playback state machine, as a state machine.               *)
(*                                                                         *)
(* The component runs on one event loop.  Each action below is one turn of *)
(* that loop: a user event handler up to its first await, the continuation *)
(* of an await once its promise settles, or a browser (Web Audio) event.   *)
(* A handler is reachable only through the control that the current render *)
(* offers, so each user action carries the control's render condition.     *)
(* After the unmount only continuations and browser events run; the values *)
(* they pass to the state setters are kept although nothing renders them.  *)
(***************************************************************************)
EXTENDS Integers, Sequences, FiniteSets, TLC

\* ------------------------------------------------------------------ bounds
MaxInv == 2        \* calls of handleTranslateAndSpeak that pass its guards
MaxSources == 2    \* AudioBufferSourceNodes alive at the same time
MaxOps == 2        \* device control messages pending after a click on a transport control
MaxFiles == 1      \* calls of handleFile that await extractTextFromFile

\* --------------------------------------------------------------- constants
MAX_INPUT_LENGTH == 10000

\* null: an optional object is <<>> (null) or <<object>>; a null error
\* message is "null"; a null buffer or source is 0.
NULL == <<>>
NoError == "null"
NoBuffer == 0
NoSource == 0

\* TargetLanguage (two of the enum's members are enough to tell them apart)
TargetLanguage == {"Chinese (Simplified)", "English"}

\* ------------------------------------------------------------------- texts
\* A text is a sequence of runs [ch, n]: n copies of the character ch.
Run(c, k) == [ch |-> c, n |-> k]

RECURSIVE TextLength(_)
TextLength(t) == IF t = <<>> THEN 0 ELSE Head(t).n + TextLength(Tail(t))

IsSpace(r) == r.ch = " "

RECURSIVE TrimStart(_)
TrimStart(t) ==
  IF t = <<>> THEN <<>>
  ELSE IF IsSpace(Head(t)) THEN TrimStart(Tail(t)) ELSE t

RECURSIVE TrimEnd(_)
TrimEnd(t) ==
  IF t = <<>> THEN <<>>
  ELSE IF IsSpace(t[Len(t)]) THEN TrimEnd(SubSeq(t, 1, Len(t) - 1)) ELSE t

\* String.prototype.trim
Trim(t) == TrimEnd(TrimStart(t))

\* String.prototype.slice(0, n): the first n characters.
RECURSIVE Slice(_, _)
Slice(t, n) ==
  IF t = <<>> \/ n <= 0 THEN <<>>
  ELSE IF Head(t).n <= n
       THEN <<Head(t)>> \o Slice(Tail(t), n - Head(t).n)
       ELSE <<Run(Head(t).ch, n)>>

\* The texts a user can put into the textarea: nothing, a text the pipeline
\* accepts (with blanks around it) and one character too many.
InputTexts ==
  { <<>>,
    <<Run(" ", 1), Run("a", 3), Run(" ", 1)>>,
    <<Run("a", MAX_INPUT_LENGTH), Run("b", 1)>> }

\* What extractTextFromFile may resolve with: a text within the limit and one
\* character too many.
ExtractedTexts ==
  { <<Run(" ", 1), Run("a", 3), Run(" ", 1)>>,
    <<Run("a", MAX_INPUT_LENGTH), Run("b", 1)>> }

\* The files a user can drop or select: what isValidFileType and
\* isValidFileSize say about them.
Files ==
  { [validType |-> FALSE, validSize |-> TRUE],
    [validType |-> TRUE, validSize |-> FALSE],
    [validType |-> TRUE, validSize |-> TRUE] }

\* The translation collaborator's answer for a text and a language.
translateSafetyText(text, lang) == [of |-> text, to |-> lang]

\* The synthesis collaborator's decoded AudioBuffer: every call decodes a new
\* buffer object, identified here by the invocation that asked for it.
generateSpeech(translatedText, inv) == inv

\* ------------------------------------------------------------------- state
VARIABLES
  state,            \* AppState: inputText, selectedLanguage, isProcessing, result, error
  isPlaying,
  isPaused,
  audioContextRef,  \* NULL or <<"ctx">>, the one AudioContext of the component
  ctxState,         \* AudioContext.state: "suspended" | "running" | "closed" ("none" before creation)
  audioSourceRef,   \* NoSource or an index into sources
  sources,          \* the AudioBufferSourceNodes, by slot; a slot may be free
  ctxOps,           \* the AudioContext's control messages not yet processed
  invs,             \* the calls of handleTranslateAndSpeak so far
  mounted,          \* FALSE once the effect cleanup (lines 259-267) has run
  isExtracting,
  extractions       \* the calls of handleFile that await extractTextFromFile

vars == <<state, isPlaying, isPaused, audioContextRef, ctxState, audioSourceRef,
          sources, ctxOps, invs, mounted, isExtracting, extractions>>

\* The playback part of the state, as the record the playback operators work on.
Playback ==
  [ isPlaying |-> isPlaying, isPaused |-> isPaused,
    audioContextRef |-> audioContextRef, ctxState |-> ctxState,
    audioSourceRef |-> audioSourceRef, sources |-> sources, ctxOps |-> ctxOps ]

SetPlayback(p) ==
  /\ isPlaying' = p.isPlaying
  /\ isPaused' = p.isPaused
  /\ audioContextRef' = p.audioContextRef
  /\ ctxState' = p.ctxState
  /\ audioSourceRef' = p.audioSourceRef
  /\ sources' = p.sources
  /\ ctxOps' = p.ctxOps

\* An AudioBufferSourceNode: its buffer, whether its onended handler is
\* attached, its status ("playing": started and neither stopped nor ended) and
\* whether its "ended" event waits to be dispatched.
FreeSource ==
  [buffer |-> NoBuffer, onended |-> FALSE, status |-> "free", endedEvent |-> FALSE]

Init ==
  /\ state = [ inputText |-> <<>>, selectedLanguage |-> "Chinese (Simplified)",
               isProcessing |-> FALSE, result |-> NULL, error |-> NoError ]
  /\ isPlaying = FALSE
  /\ isPaused = FALSE
  /\ audioContextRef = NULL
  /\ ctxState = "none"
  /\ audioSourceRef = NoSource
  /\ sources = [s \in 1..MaxSources |-> FreeSource]
  /\ ctxOps = <<>>
  /\ invs = <<>>
  /\ mounted = TRUE
  /\ isExtracting = FALSE
  /\ extractions = 0

\* ------------------------------------------------------------ AudioContext
\* A control message: op is "resume" or "suspend"; waiter is the code that
\* awaits the promise the call returned (kind "none": nobody awaits it).
Waiter(k, b, i) == [kind |-> k, buffer |-> b, inv |-> i]
NoWaiter == Waiter("none", NoBuffer, 0)
CtxOp(o, w) == [op |-> o, waiter |-> w]

\* AudioContext.resume() / suspend(): the state changes, and the promise
\* settles, when the rendering thread has processed the message.  An unawaited
\* resume() directly behind another resume is dropped: processing it would
\* find the context running and do nothing.
Enqueue(q, o) ==
  IF /\ o.op = "resume" /\ o.waiter = NoWaiter
     /\ q # <<>> /\ q[Len(q)].op = "resume"
  THEN q
  ELSE Append(q, o)

\* ---------------------------------------------------------------- playback
\* getAudioContext: the context is created on first use; a new AudioContext is
\* "suspended" and starts running once the rendering thread has started.
getAudioContext(p) ==
  IF p.audioContextRef = NULL
  THEN [p EXCEPT !.audioContextRef = <<"ctx">>,
                 !.ctxState = "suspended",
                 !.ctxOps = Enqueue(@, CtxOp("resume", NoWaiter))]
  ELSE p

\* A node that has stopped or ended, whose event has been dispatched and that
\* the component no longer references can do nothing more: its slot is freed.
Collect(p) ==
  [p EXCEPT !.sources =
     [s \in DOMAIN p.sources |->
        IF /\ p.sources[s].status \in {"stopped", "ended"}
           /\ ~p.sources[s].endedEvent
           /\ s # p.audioSourceRef
        THEN FreeSource
        ELSE p.sources[s]]]

\* stopAudio without line 169: the stopped node stays referenced.
stopAudio_KeepsRef(p) ==
  LET r == p.audioSourceRef
      p1 == IF r # NoSource
            THEN [p EXCEPT !.sources[r].onended = FALSE,
                           !.sources[r].status =
                              IF @ = "playing" THEN "stopped" ELSE @]
            ELSE p
      p2 == IF p1.audioContextRef # NULL /\ p1.ctxState = "suspended"
            THEN [p1 EXCEPT !.ctxOps = Enqueue(@, CtxOp("resume", NoWaiter))]
            ELSE p1
  IN Collect([p2 EXCEPT !.isPlaying = FALSE, !.isPaused = FALSE])

stopAudio(p) ==
  LET r == p.audioSourceRef
      p1 == IF r # NoSource
            THEN [p EXCEPT !.sources[r].onended = FALSE,
                           !.sources[r].status =
                              IF @ = "playing" THEN "stopped" ELSE @,
                           !.audioSourceRef = NoSource]
            ELSE p
      p2 == IF p1.audioContextRef # NULL /\ p1.ctxState = "suspended"
            THEN [p1 EXCEPT !.ctxOps = Enqueue(@, CtxOp("resume", NoWaiter))]
            ELSE p1
  IN Collect([p2 EXCEPT !.isPlaying = FALSE, !.isPaused = FALSE])

\* playAudio after its (possible) await: lines 128-141.
FreeSlots(p) == {s \in DOMAIN p.sources : p.sources[s].status = "free"}

startSource(p, buffer) ==
  LET source == CHOOSE s \in FreeSlots(p) : \A t \in FreeSlots(p) : s <= t IN
  Collect([p EXCEPT !.sources[source] =
                       [ buffer |-> buffer, onended |-> TRUE,
                         status |-> "playing", endedEvent |-> FALSE ],
                    !.audioSourceRef = source,
                    !.isPlaying = TRUE,
                    !.isPaused = FALSE])

\* playAudio up to its await: lines 120-126, and the rest when it does not wait.
playAudio(p, buffer, inv) ==
  LET s == stopAudio(p) IN
  IF s.ctxState = "suspended"
  THEN [s EXCEPT !.ctxOps = Enqueue(@, CtxOp("resume", Waiter("play", buffer, inv)))]
  ELSE startSource(s, buffer)

\* Whether playAudio(p, ..) returns a pending promise (it awaits ctx.resume()).
playAudioWaits(p) == stopAudio(p).ctxState = "suspended"

\* ---------------------------------------------------------------- pipeline
\* One call of handleTranslateAndSpeak that passed its guards, at its first
\* await: where it stands (pc), the inputText and selectedLanguage of the
\* render it was called in, and what it has done.
NewInv(text, lang) ==
  [ pc |-> "translating", text |-> text, lang |-> lang,
    translated |-> NULL,     \* what translateSafetyText returned to it
    translateCalls |-> 1,    \* its calls of translateSafetyText
    synthCalls |-> 0,        \* its calls of generateSpeech
    playRequests |-> 0,      \* its calls of playAudio
    outcome |-> "none" ]

\* An invocation that returned before another one returned or started:
\* nothing of it is kept.
Archived ==
  [ pc |-> "done", text |-> <<>>, lang |-> "", translated |-> NULL,
    translateCalls |-> 0, synthCalls |-> 0, playRequests |-> 0,
    outcome |-> "archived" ]

Archive(all) ==
  [j \in DOMAIN all |-> IF all[j].pc = "done" THEN Archived ELSE all[j]]

\* Invocation i returns: its closure (the render's text and language, the
\* translation) is gone; what it did stays on record until another invocation
\* returns or starts.
Finished(all, i, result) ==
  [Archive(all) EXCEPT ![i] = [@ EXCEPT !.pc = "done", !.text = <<>>, !.lang = "",
                                        !.translated = NULL, !.outcome = result]]

\* Invocations that may still call playAudio.
InFlight == {i \in 1..Len(invs) : invs[i].pc \in {"translating", "synthesizing"}}

\* playAudio calls that wait for the device.
PendingPlays == {k \in 1..Len(ctxOps) : ctxOps[k].waiter.kind = "play"}

\* Room for one more source beyond those already asked for.
RoomForSource ==
  (MaxSources - Cardinality(FreeSlots(Playback))) + Cardinality(PendingPlays)
    + Cardinality(InFlight) < MaxSources

\* A click on a transport control is taken while the device keeps up: it may
\* leave at most MaxOps control messages pending (or add none).
DeviceKeepsUp(p) == Len(p.ctxOps) <= MaxOps \/ p.ctxOps = ctxOps

HasAudio == state.result # NULL /\ state.result[1].audioBuffer # NoBuffer

\* The handler without its length guard (lines 59-65).
TranslateAndSpeak_NoLengthGuard ==
  /\ mounted
  /\ ~state.isProcessing /\ ~isExtracting
  /\ Trim(state.inputText) # <<>>
  /\ Len(invs) < MaxInv
  /\ RoomForSource
  /\ state' = [state EXCEPT !.isProcessing = TRUE, !.error = NoError,
                            !.result = NULL]
  /\ SetPlayback(stopAudio(Playback))
  /\ invs' = Append(Archive(invs),
                    NewInv(state.inputText, state.selectedLanguage))
  /\ UNCHANGED <<mounted, isExtracting, extractions>>

\* The "translate & speak" button (lines 411-413) and its handler (53-68).
TranslateAndSpeak ==
  /\ mounted
  /\ ~state.isProcessing /\ ~isExtracting
  /\ Trim(state.inputText) # <<>>
  /\ IF Trim(state.inputText) = <<>>
     THEN /\ state' = [state EXCEPT !.error = "EmptyInput"]
          /\ UNCHANGED <<isPlaying, isPaused, audioContextRef, ctxState,
                         audioSourceRef, sources, ctxOps, invs>>
     ELSE IF TextLength(state.inputText) > MAX_INPUT_LENGTH
     THEN /\ state' = [state EXCEPT !.error = "InputTooLong"]
          /\ UNCHANGED <<isPlaying, isPaused, audioContextRef, ctxState,
                         audioSourceRef, sources, ctxOps, invs>>
     ELSE /\ Len(invs) < MaxInv
          /\ RoomForSource
          /\ state' = [state EXCEPT !.isProcessing = TRUE, !.error = NoError,
                                    !.result = NULL]
          /\ SetPlayback(stopAudio(Playback))
          /\ invs' = Append(Archive(invs),
                            NewInv(state.inputText, state.selectedLanguage))
  /\ UNCHANGED <<mounted, isExtracting, extractions>>

\* A result built from the render the handler saw, not the render the user
\* sees when the translation arrives.
partialResultOfCurrentRender(inv, translatedText) ==
  [ originalText |-> state.inputText,
    translatedText |-> translatedText,
    targetLanguage |-> state.selectedLanguage,
    audioBuffer |-> NoBuffer ]

\* The result published when the translation arrives (lines 77-82): the text
\* and language are those of the handler's closure.
partialResult(inv, translatedText) ==
  [ originalText |-> inv.text,
    translatedText |-> translatedText,
    targetLanguage |-> inv.lang,
    audioBuffer |-> NoBuffer ]

\* translateSafetyText resolves: lines 72-90, up to the await of generateSpeech.
TranslateOk(i) ==
  /\ invs[i].pc = "translating"
  /\ LET translatedText == translateSafetyText(invs[i].text, invs[i].lang) IN
     /\ state' = [state EXCEPT !.result = <<partialResult(invs[i], translatedText)>>]
     /\ SetPlayback(getAudioContext(Playback))
     /\ invs' = [invs EXCEPT ![i].pc = "synthesizing",
                             ![i].translated = <<translatedText>>,
                             ![i].synthCalls = @ + 1]
  /\ UNCHANGED <<mounted, isExtracting, extractions>>

\* The catch block forgets the message.
TranslateFail_NoError(i) ==
  /\ invs[i].pc = "translating"
  /\ state' = [state EXCEPT !.isProcessing = FALSE]
  /\ invs' = Finished(invs, i, "TranslationFailed")
  /\ UNCHANGED <<isPlaying, isPaused, audioContextRef, ctxState,
                 audioSourceRef, sources, ctxOps>>
  /\ UNCHANGED <<mounted, isExtracting, extractions>>

\* The failure of the translation is reported, and the speech is requested anyway.
TranslateFail_StillSynthesizes(i) ==
  /\ invs[i].pc = "translating"
  /\ state' = [state EXCEPT !.error = "TranslationFailed"]
  /\ SetPlayback(getAudioContext(Playback))
  /\ invs' = [invs EXCEPT ![i].pc = "synthesizing",
                          ![i].translated = <<translateSafetyText(<<>>, invs[i].lang)>>,
                          ![i].synthCalls = @ + 1,
                          ![i].outcome = "TranslationFailed"]
  /\ UNCHANGED <<mounted, isExtracting, extractions>>

\* translateSafetyText rejects: lines 111-117.
TranslateFail(i) ==
  /\ invs[i].pc = "translating"
  /\ state' = [state EXCEPT !.isProcessing = FALSE, !.error = "TranslationFailed"]
  /\ invs' = Finished(invs, i, "TranslationFailed")
  /\ UNCHANGED <<isPlaying, isPaused, audioContextRef, ctxState,
                 audioSourceRef, sources, ctxOps>>
  /\ UNCHANGED <<mounted, isExtracting, extractions>>

\* generateSpeech resolves: lines 92-99, up to the await inside playAudio.
SynthOk(i) ==
  /\ invs[i].pc = "synthesizing"
  /\ LET audioBuffer == generateSpeech(invs[i].translated[1], i) IN
     /\ state' = [state EXCEPT
                    !.isProcessing = FALSE,
                    !.result = IF @ # NULL
                               THEN << [@[1] EXCEPT !.audioBuffer = audioBuffer] >>
                               ELSE NULL]
     /\ SetPlayback(playAudio(Playback, audioBuffer, i))
     /\ LET called == [invs EXCEPT ![i].pc = "autoplay",
                                   ![i].playRequests = @ + 1,
                                   ![i].outcome = "AudioReady"]
        IN invs' = IF playAudioWaits(Playback)
                   THEN called
                   ELSE Finished(called, i, "AudioReady")
  /\ UNCHANGED <<mounted, isExtracting, extractions>>

\* The inner catch block reports the failure and leaves the flag set.
SynthFail_KeepsProcessing(i) ==
  /\ invs[i].pc = "synthesizing"
  /\ state' = [state EXCEPT !.error = "SynthesisFailed"]
  /\ invs' = Finished(invs, i, "SynthesisFailed")
  /\ UNCHANGED <<isPlaying, isPaused, audioContextRef, ctxState,
                 audioSourceRef, sources, ctxOps>>
  /\ UNCHANGED <<mounted, isExtracting, extractions>>

\* The inner catch block asks for the speech once more.
SynthFail_Retries(i) ==
  /\ invs[i].pc = "synthesizing"
  /\ state' = [state EXCEPT !.error = "SynthesisFailed"]
  /\ invs' = [invs EXCEPT ![i].synthCalls = @ + 1]
  /\ UNCHANGED <<isPlaying, isPaused, audioContextRef, ctxState,
                 audioSourceRef, sources, ctxOps>>
  /\ UNCHANGED <<mounted, isExtracting, extractions>>

\* generateSpeech rejects: lines 101-109.
SynthFail(i) ==
  /\ invs[i].pc = "synthesizing"
  /\ state' = [state EXCEPT !.isProcessing = FALSE, !.error = "SynthesisFailed"]
  /\ invs' = Finished(invs, i, "SynthesisFailed")
  /\ UNCHANGED <<isPlaying, isPaused, audioContextRef, ctxState,
                 audioSourceRef, sources, ctxOps>>
  /\ UNCHANGED <<mounted, isExtracting, extractions>>

\* ------------------------------------------------------- transport controls
\* The pause button (lines 482-498) and handlePause up to its await.
handlePause ==
  /\ mounted
  /\ HasAudio /\ isPlaying
  /\ Len(ctxOps) < MaxOps
  /\ IF audioContextRef # NULL /\ isPlaying
     THEN ctxOps' = Enqueue(ctxOps, CtxOp("suspend", Waiter("pause", NoBuffer, 0)))
     ELSE UNCHANGED ctxOps
  /\ UNCHANGED <<state, isPlaying, isPaused, audioContextRef, ctxState,
                 audioSourceRef, sources, invs>>
  /\ UNCHANGED <<mounted, isExtracting, extractions>>

\* The resume button (lines 482-498) and handleResume up to its await.
handleResume ==
  /\ mounted
  /\ HasAudio /\ ~isPlaying /\ isPaused
  /\ Len(ctxOps) < MaxOps
  /\ IF audioContextRef # NULL /\ isPaused
     THEN ctxOps' = Enqueue(ctxOps, CtxOp("resume", Waiter("resume", NoBuffer, 0)))
     ELSE UNCHANGED ctxOps
  /\ UNCHANGED <<state, isPlaying, isPaused, audioContextRef, ctxState,
                 audioSourceRef, sources, invs>>
  /\ UNCHANGED <<mounted, isExtracting, extractions>>

\* The stop button (lines 500-506).
StopClick ==
  /\ mounted
  /\ HasAudio /\ (isPlaying \/ isPaused)
  /\ DeviceKeepsUp(stopAudio(Playback))
  /\ SetPlayback(stopAudio(Playback))
  /\ UNCHANGED <<state, invs>>
  /\ UNCHANGED <<mounted, isExtracting, extractions>>

\* The replay asks the synthesis collaborator for the audio once more.
handleReplay_Resynthesizes ==
  /\ mounted
  /\ HasAudio /\ ~isPlaying /\ ~isPaused
  /\ invs # <<>>
  /\ invs' = [invs EXCEPT ![Len(invs)].synthCalls = @ + 1]
  /\ UNCHANGED <<state, isPlaying, isPaused, audioContextRef, ctxState,
                 audioSourceRef, sources, ctxOps>>
  /\ UNCHANGED <<mounted, isExtracting, extractions>>

\* The replay button (lines 508-514) and handleReplay.
handleReplay ==
  /\ mounted
  /\ HasAudio /\ ~isPlaying /\ ~isPaused
  /\ RoomForSource
  /\ DeviceKeepsUp(playAudio(Playback, state.result[1].audioBuffer, 0))
  /\ IF HasAudio /\ audioContextRef # NULL
     THEN SetPlayback(playAudio(Playback, state.result[1].audioBuffer, 0))
     ELSE UNCHANGED <<isPlaying, isPaused, audioContextRef, ctxState,
                      audioSourceRef, sources, ctxOps>>
  /\ UNCHANGED <<state, invs>>
  /\ UNCHANGED <<mounted, isExtracting, extractions>>

\* ------------------------------------------------------------ input staging
\* The textarea's onChange (line 361).
TypeText(t) ==
  /\ mounted
  /\ t # state.inputText
  /\ state' = [state EXCEPT !.inputText = t, !.error = NoError]
  /\ UNCHANGED <<isPlaying, isPaused, audioContextRef, ctxState,
                 audioSourceRef, sources, ctxOps, invs>>
  /\ UNCHANGED <<mounted, isExtracting, extractions>>

\* A language button (line 391).
SelectLanguage(lang) ==
  /\ mounted
  /\ state' = [state EXCEPT !.selectedLanguage = lang, !.result = NULL]
  /\ UNCHANGED <<isPlaying, isPaused, audioContextRef, ctxState,
                 audioSourceRef, sources, ctxOps, invs>>
  /\ UNCHANGED <<mounted, isExtracting, extractions>>

\* The clear button (lines 305-309) and clearInput (254-256).
clearInput ==
  /\ mounted
  /\ state.inputText # <<>>
  /\ state' = [state EXCEPT !.inputText = <<>>, !.result = NULL]
  /\ UNCHANGED <<isPlaying, isPaused, audioContextRef, ctxState,
                 audioSourceRef, sources, ctxOps, invs>>
  /\ UNCHANGED <<mounted, isExtracting, extractions>>

\* A file is dropped on the upload area or selected (lines 238-250):
\* handleFile up to its await (lines 189-204).
handleFile(file) ==
  /\ mounted
  /\ IF ~file.validType
     THEN /\ state' = [state EXCEPT !.error = "InvalidFileType"]
          /\ UNCHANGED <<isExtracting, extractions>>
     ELSE IF ~file.validSize
     THEN /\ state' = [state EXCEPT !.error = "FileTooLarge"]
          /\ UNCHANGED <<isExtracting, extractions>>
     ELSE /\ extractions < MaxFiles
          /\ isExtracting' = TRUE
          /\ state' = [state EXCEPT !.error = NoError, !.result = NULL]
          /\ extractions' = extractions + 1
  /\ UNCHANGED <<isPlaying, isPaused, audioContextRef, ctxState, audioSourceRef,
                 sources, ctxOps, invs, mounted>>

\* extractTextFromFile resolves: lines 205-216 and 223.
ExtractOk(extracted) ==
  /\ extractions > 0
  /\ state' = IF TextLength(extracted) > MAX_INPUT_LENGTH
              THEN [state EXCEPT !.inputText = Slice(extracted, MAX_INPUT_LENGTH),
                                 !.error = "FileTruncated"]
              ELSE [state EXCEPT !.inputText = extracted]
  /\ isExtracting' = FALSE
  /\ extractions' = extractions - 1
  /\ UNCHANGED <<isPlaying, isPaused, audioContextRef, ctxState, audioSourceRef,
                 sources, ctxOps, invs, mounted>>

\* extractTextFromFile rejects: lines 217-223.
ExtractFail ==
  /\ extractions > 0
  /\ state' = [state EXCEPT !.error = "FileReadFailed"]
  /\ isExtracting' = FALSE
  /\ extractions' = extractions - 1
  /\ UNCHANGED <<isPlaying, isPaused, audioContextRef, ctxState, audioSourceRef,
                 sources, ctxOps, invs, mounted>>

\* handlePause after its await (lines 147-148).
paused(p) == [p EXCEPT !.isPlaying = FALSE, !.isPaused = TRUE]

\* The continuation lets go of the source.
resumed_DropsSource(p) ==
  [p EXCEPT !.isPlaying = TRUE, !.isPaused = FALSE, !.audioSourceRef = NoSource]

\* handleResume after its await (lines 155-156).
resumed(p) == [p EXCEPT !.isPlaying = TRUE, !.isPaused = FALSE]

\* ----------------------------------------------------------------- unmount
\* The effect cleanup (lines 259-267): stopAudio, then close() on the context
\* if there is one.  close() is a control message like resume() and suspend().
Unmount ==
  /\ mounted
  /\ mounted' = FALSE
  /\ LET p == stopAudio(Playback) IN
     SetPlayback(IF p.audioContextRef # NULL
                 THEN [p EXCEPT !.ctxOps = Append(@, CtxOp("close", NoWaiter))]
                 ELSE p)
  /\ UNCHANGED <<state, invs, isExtracting, extractions>>

\* ------------------------------------------------------------ device events
\* The rendering thread processes the oldest control message; the promise of
\* the call settles and the code awaiting it continues:
\*   playAudio lines 128-141, handlePause 147-148, handleResume 155-156.
\* A message that finds the context closed changes nothing and its promise
\* rejects: an auto-play's rejection lands in the inner catch (lines 101-109).
\* The tasks of the rendering thread run in the order it queued them: an
\* "ended" event queued before the message was processed is dispatched first.
DeviceStep ==
  /\ ctxOps # <<>>
  /\ \A s \in DOMAIN sources : ~sources[s].endedEvent
  /\ LET o == Head(ctxOps)
         w == o.waiter
         closed == [Playback EXCEPT !.ctxOps = Tail(ctxOps)]
         p == [closed EXCEPT !.ctxState = CASE o.op = "suspend" -> "suspended"
                                            [] o.op = "close"   -> "closed"
                                            [] OTHER            -> "running"]
     IN IF ctxState = "closed"
        THEN /\ SetPlayback(closed)
             /\ IF w.kind = "play" /\ w.inv # 0
                THEN /\ state' = [state EXCEPT !.isProcessing = FALSE,
                                               !.error = "SynthesisFailed"]
                     /\ invs' = Finished(invs, w.inv, invs[w.inv].outcome)
                ELSE UNCHANGED <<state, invs>>
        ELSE /\ SetPlayback(
                  CASE w.kind = "play"   -> startSource(p, w.buffer)
                    [] w.kind = "pause"  -> paused(p)
                    [] w.kind = "resume" -> resumed(p)
                    [] OTHER             -> p)
             /\ invs' = IF w.kind = "play" /\ w.inv # 0
                        THEN Finished(invs, w.inv, invs[w.inv].outcome)
                        ELSE invs
             /\ UNCHANGED state
  /\ UNCHANGED <<mounted, isExtracting, extractions>>

\* A started source reaches the end of its buffer while the device runs; its
\* "ended" event is queued.
SourceEnds(s) ==
  /\ sources[s].status = "playing"
  /\ ctxState = "running"
  /\ sources' = [sources EXCEPT ![s].status = "ended", ![s].endedEvent = TRUE]
  /\ UNCHANGED <<state, isPlaying, isPaused, audioContextRef, ctxState,
                 audioSourceRef, ctxOps, invs>>
  /\ UNCHANGED <<mounted, isExtracting, extractions>>

\* The "ended" event is dispatched: source.onended (lines 132-136), if attached.
DispatchEnded(s) ==
  /\ sources[s].endedEvent
  /\ LET p == [Playback EXCEPT !.sources[s].endedEvent = FALSE] IN
     SetPlayback(Collect(IF sources[s].onended
                         THEN [p EXCEPT !.isPlaying = FALSE, !.isPaused = FALSE]
                         ELSE p))
  /\ UNCHANGED <<state, invs>>
  /\ UNCHANGED <<mounted, isExtracting, extractions>>

Next ==
  \/ TranslateAndSpeak
  \/ \E i \in 1..Len(invs) : TranslateOk(i)
  \/ \E i \in 1..Len(invs) : TranslateFail(i)
  \/ \E i \in 1..Len(invs) : SynthOk(i)
  \/ \E i \in 1..Len(invs) : SynthFail(i)
  \/ handlePause
  \/ handleResume
  \/ StopClick
  \/ handleReplay
  \/ \E t \in InputTexts : TypeText(t)
  \/ \E lang \in TargetLanguage : SelectLanguage(lang)
  \/ clearInput
  \/ Unmount
  \/ DeviceStep
  \/ \E s \in DOMAIN sources : SourceEnds(s)
  \/ \E s \in DOMAIN sources : DispatchEnded(s)

\* The component while no file is uploaded.
Spec == Init /\ [][Next]_vars

\* The component with file uploads.
Upload ==
  \/ \E file \in Files : handleFile(file)
  \/ \E extracted \in ExtractedTexts : ExtractOk(extracted)
  \/ ExtractFail

UploadNext == Next \/ Upload

UploadSpec == Init /\ [][UploadNext]_vars

\* The collaborators answer every request (each call is one HTTP exchange).
Responds ==
  \/ \E i \in 1..Len(invs) : TranslateOk(i) \/ TranslateFail(i)
  \/ \E i \in 1..Len(invs) : SynthOk(i) \/ SynthFail(i)

FairSpec == Spec /\ WF_vars(Responds)

\* ============================================================== properties
Invocations == 1..Len(invs)
Playing == {s \in DOMAIN sources : sources[s].status = "playing"}

\* The steps of invocation i: its position or record changes.
StepOf(i) == i \in Invocations /\ invs'[i].pc # invs[i].pc

\* A later invocation that passed its guard exists.
Superseded(i) == \E j \in Invocations : j > i

\* C1: at most one source that has been started and has neither been halted
\* nor ended exists at any instant.
C1_AtMostOneSource == Cardinality(Playing) <= 1

\* C2: once a later invocation has started, a step of the earlier invocation
\* changes nothing of the shared state (the published state, the playback
\* flags, the bound source, the sources).
C2_SupersededIsIgnored ==
  [][\A i \in Invocations :
       (Superseded(i) /\ StepOf(i)) =>
          /\ state' = state
          /\ isPlaying' = isPlaying /\ isPaused' = isPaused
          /\ audioSourceRef' = audioSourceRef
          /\ sources' = sources]_vars

\* C3: while an invocation that passed its guard has not begun its own
\* auto-play, no source plays the audio of an earlier invocation.
C3_NoEarlierAudio ==
  \A i \in Invocations :
     invs[i].pc \in {"translating", "synthesizing"} =>
        \A s \in Playing : sources[s].buffer >= i

\* C4: the processing flag is true while an invocation awaits translation or
\* synthesis, it is false right after each terminal outcome, and if the
\* collaborators respond it becomes false.
C4_ProcessingFlag ==
  /\ [](\A i \in Invocations :
          invs[i].pc \in {"translating", "synthesizing"} => state.isProcessing)
  /\ [][\A i \in Invocations :
          (/\ invs[i].pc \in {"translating", "synthesizing"}
           /\ invs'[i].pc \in {"autoplay", "done"}) => ~state'.isProcessing]_vars
  /\ (state.isProcessing ~> ~state.isProcessing)

\* One invocation has its audio and waits for the device before it plays; a
\* later one has ended in a synthesis failure.
C4_Witness ==
  /\ \E i \in Invocations : invs[i].pc = "autoplay"
  /\ \E i \in Invocations : invs[i].outcome = "SynthesisFailed"
  /\ ~state.isProcessing

\* C5: when synthesis fails after a successful translation, the state after
\* the failure shows the translation with no audio, and the flag is false.
C5_SynthesisFailureKeepsTranslation ==
  [][\A i \in Invocations :
       (invs[i].pc = "synthesizing" /\ invs'[i].outcome = "SynthesisFailed") =>
          /\ state'.result # NULL
          /\ state'.result[1].translatedText = invs[i].translated[1]
          /\ state'.result[1].audioBuffer = NoBuffer
          /\ ~state'.isProcessing]_vars

\* C6: an invocation whose translation fails publishes no result (the result
\* is null while it awaits the translation and after the failure), reports an
\* error and leaves the flag false.
C6_TranslationFailure ==
  /\ [](\A i \in Invocations : invs[i].pc = "translating" => state.result = NULL)
  /\ [][\A i \in Invocations :
          (invs[i].pc = "translating" /\ invs'[i].outcome = "TranslationFailed") =>
             /\ state'.result = NULL
             /\ state'.error # NoError
             /\ ~state'.isProcessing]_vars

C6_Witness ==
  /\ \E i \in Invocations : invs[i].outcome = "TranslationFailed"
  /\ state.error = "TranslationFailed"
  /\ state.result = NULL
  /\ ~state.isProcessing

\* C7: an invocation asks for synthesis only after its translation has
\* returned; after a failed translation it never does; the two requests are
\* never outstanding together.
C7_TranslateBeforeSynthesize ==
  \A i \in Invocations :
     /\ invs[i].synthCalls <= invs[i].translateCalls
     /\ invs[i].pc = "translating" => invs[i].synthCalls = 0
     /\ invs[i].outcome = "TranslationFailed" => invs[i].synthCalls = 0
     /\ invs[i].pc = "synthesizing" =>
           /\ invs[i].translated = <<translateSafetyText(invs[i].text, invs[i].lang)>>
           /\ invs[i].outcome = "none"

\* After an invocation whose translation failed, the next one has its
\* translation and awaits its speech.
C7_Witness ==
  /\ \E i \in Invocations : invs[i] = Archived
  /\ \E i \in Invocations :
        /\ invs[i].pc = "synthesizing" /\ invs[i].synthCalls = 1
        /\ state.result # NULL

\* C8: when the translation arrives, a result with the invocation's text, its
\* translation and its language and with no audio is published while the flag
\* is still true; until synthesis resolves no other result is shown.
C8_PartialResult ==
  /\ [][\A i \in Invocations :
          (invs[i].pc = "translating" /\ invs'[i].pc = "synthesizing") =>
             /\ state'.result =
                  << [ originalText |-> invs[i].text,
                       translatedText |-> translateSafetyText(invs[i].text, invs[i].lang),
                       targetLanguage |-> invs[i].lang,
                       audioBuffer |-> NoBuffer ] >>
             /\ state'.isProcessing]_vars
  /\ [](\A i \in Invocations :
          (invs[i].pc = "synthesizing" /\ state.result # NULL) =>
             /\ state.result[1].originalText = invs[i].text
             /\ state.result[1].targetLanguage = invs[i].lang
             /\ state.result[1].audioBuffer = NoBuffer
             /\ state.isProcessing)

\* The text and the language were changed while the translation was awaited.
C8_Witness ==
  \E i \in Invocations :
     /\ invs[i].pc = "synthesizing"
     /\ state.result # NULL
     /\ state.result[1].originalText # state.inputText
     /\ state.isProcessing

\* C9: an invocation calls playAudio once if its synthesis succeeded and never
\* otherwise, and calls each collaborator at most once; a call the guards
\* reject starts no invocation and leaves the playback as it is.
C9_AutoPlayOnce ==
  /\ [](\A i \in Invocations :
          /\ invs[i].playRequests = IF invs[i].outcome = "AudioReady" THEN 1 ELSE 0
          /\ invs[i].translateCalls <= 1
          /\ invs[i].synthCalls <= 1
          /\ invs[i].pc = "done" /\ invs[i].outcome = "SynthesisFailed" =>
                invs[i].translateCalls = 1 /\ invs[i].synthCalls = 1)
  /\ [][(/\ state'.error \in {"EmptyInput", "InputTooLong"}
          /\ state'.error # state.error) =>
            /\ invs' = invs
            /\ Playback' = Playback]_vars

\* An invocation has played its audio after waiting for the device, and the
\* one before it is over too.
C9_Witness ==
  /\ \E i \in Invocations :
        /\ invs[i].pc = "done" /\ invs[i].outcome = "AudioReady"
        /\ invs[i].playRequests = 1
  /\ \E i \in Invocations : invs[i] = Archived

\* C10: in every state, stop() leaves the session neither Playing nor Paused
\* with no source bound, and a second stop() leaves the playback flags, the
\* source handle, the sources and the device context as the first left them.
C10_StopIdempotent ==
  LET once == stopAudio(Playback)
      twice == stopAudio(once)
  IN /\ ~once.isPlaying /\ ~once.isPaused
     /\ once.audioSourceRef = NoSource
     /\ twice.isPlaying = once.isPlaying /\ twice.isPaused = once.isPaused
     /\ twice.audioSourceRef = once.audioSourceRef
     /\ twice.sources = once.sources
     /\ twice.audioContextRef = once.audioContextRef
     /\ twice.ctxState = once.ctxState

\* A stop from Paused has just run: the device is suspended, its resume pending.
C10_Witness ==
  /\ ~isPlaying /\ ~isPaused /\ audioSourceRef = NoSource
  /\ ctxState = "suspended"
  /\ ctxOps # <<>> /\ ctxOps[Len(ctxOps)] = CtxOp("resume", NoWaiter)
  /\ HasAudio
  /\ Playback = stopAudio(Playback)

\* A call of suspend() or resume() whose promise is awaited by k has just been
\* issued / is just being settled on an open context.
Issued(k) ==
  /\ Len(ctxOps') = Len(ctxOps) + 1
  /\ ctxOps'[Len(ctxOps')].waiter.kind = k

Settles(k) ==
  /\ ctxOps # <<>> /\ ctxOps' = Tail(ctxOps)
  /\ Head(ctxOps).waiter.kind = k
  /\ ctxState # "closed"

\* C11: pause() acts only on a Playing session and resume() only on a Paused
\* one, and the session becomes Paused only by a pause that finds it still
\* Playing when it takes effect.
C11_PauseResumeGuards ==
  [][ /\ Issued("pause") => isPlaying
      /\ Issued("resume") => isPaused
      /\ (~isPaused /\ isPaused') => isPlaying ]_vars

\* C12: from Playing, pause() and then resume() lead back to Playing with the
\* same source bound: the pause and the resume keep the handle and the
\* sources and call no collaborator, the handle stays while the session is
\* Paused, and the resume leaves the device running.
C12_PauseThenResume ==
  [][ /\ (Issued("pause") \/ Issued("resume")) =>
            /\ state' = state /\ invs' = invs
            /\ isPlaying' = isPlaying /\ isPaused' = isPaused
            /\ audioSourceRef' = audioSourceRef /\ sources' = sources
      /\ (Settles("pause") /\ isPlaying) =>
            /\ ~isPlaying' /\ isPaused' /\ ctxState' = "suspended"
            /\ audioSourceRef' = audioSourceRef /\ sources' = sources
            /\ state' = state /\ invs' = invs
      /\ (isPaused /\ isPaused') => audioSourceRef' = audioSourceRef
      /\ (Settles("resume") /\ isPaused) =>
            /\ isPlaying' /\ ~isPaused' /\ ctxState' = "running"
            /\ audioSourceRef' = audioSourceRef /\ sources' = sources
            /\ state' = state /\ invs' = invs ]_vars

\* A playing session was paused and the resume is on its way: the source
\* started before the pause is still the bound one.
C12_Witness ==
  /\ isPaused /\ ~isPlaying /\ ctxState = "suspended"
  /\ audioSourceRef # NoSource
  /\ sources[audioSourceRef].status = "playing"
  /\ ctxOps = <<CtxOp("resume", Waiter("resume", NoBuffer, 0))>>

\* C13: a replay happens only with a result that has audio and a session that
\* is not Playing; it calls no collaborator and changes nothing of the
\* published state; it starts a source with the result's buffer and binds it,
\* or, the device being suspended, waits for it to resume before it does.
C13_Replay ==
  [][ handleReplay =>
        /\ HasAudio /\ ~isPlaying
        /\ state' = state /\ invs' = invs
        /\ \/ /\ isPlaying' /\ ~isPaused'
              /\ audioSourceRef' # NoSource
              /\ sources'[audioSourceRef'].status = "playing"
              /\ sources'[audioSourceRef'].buffer = state.result[1].audioBuffer
           \/ /\ ctxState = "suspended"
              /\ ctxOps' # <<>>
              /\ ctxOps'[Len(ctxOps')] =
                    CtxOp("resume", Waiter("play", state.result[1].audioBuffer, 0)) ]_vars

\* A replay waits for the device: the session was stopped from Paused.
C13_Witness ==
  /\ HasAudio /\ ~isPlaying /\ ~isPaused
  /\ \E k \in 1..Len(ctxOps) :
        ctxOps[k].waiter = Waiter("play", state.result[1].audioBuffer, 0)

\* C14: in every state a published result belongs to the current input text:
\* its originalText is the inputText.
C14_NoStaleResult ==
  state.result # NULL => state.result[1].originalText = state.inputText

\* C15: the staged input text is never longer than MAX_INPUT_LENGTH (a longer
\* text is cut to its first MAX_INPUT_LENGTH characters when it is staged).
C15_StagedWithinLimit == TextLength(state.inputText) <= MAX_INPUT_LENGTH

\* C16: a call of the pipeline with a text that is empty, blank or longer than
\* the maximum is rejected at once: it reports an error, starts no invocation
\* (no collaborator is called), leaves the processing flag false and leaves
\* the published result and the playback as they are; a text of exactly the
\* maximum length is not rejected.
C16_GuardRejects ==
  [][ TranslateAndSpeak =>
        IF \/ Trim(state.inputText) = <<>>
           \/ TextLength(state.inputText) > MAX_INPUT_LENGTH
        THEN /\ state'.error \in {"EmptyInput", "InputTooLong"}
             /\ invs' = invs
             /\ ~state'.isProcessing
             /\ state'.result = state.result
             /\ state'.inputText = state.inputText
             /\ Playback' = Playback
        ELSE Len(invs') = Len(invs) + 1 ]_vars

\* A text one character too long has been rejected while the result and the
\* audio of the invocation before it are still there.
C16_Witness ==
  /\ state.error = "InputTooLong"
  /\ TextLength(state.inputText) > MAX_INPUT_LENGTH
  /\ ~state.isProcessing
  /\ HasAudio /\ isPlaying
  /\ InFlight = {}

\* C17: after the unmount no source plays on an open context and no context
\* is open: there is none, or it is closed, or its close() is on its way.
C17_Teardown ==
  ~mounted =>
     /\ \/ audioContextRef = NULL
        \/ ctxState = "closed"
        \/ \E k \in 1..Len(ctxOps) : ctxOps[k].op = "close"
     /\ (Playing # {} => ctxState = "closed")

\* The "ended" event of source s is dispatched in this step.
Dispatched(s) == sources[s].endedEvent /\ ~sources'[s].endedEvent

\* C18: the "ended" event of a source that is not the bound one (it was
\* stopped, or another source was started after it) changes neither isPlaying
\* nor isPaused.
C18_LateEndedIsIgnored ==
  [][ \A s \in DOMAIN sources :
        (Dispatched(s) /\ s # audioSourceRef) =>
           isPlaying' = isPlaying /\ isPaused' = isPaused ]_vars

C20_NaturalEndIsStop ==
  [][ \A s \in DOMAIN sources :
        (Dispatched(s) /\ s = audioSourceRef /\ sources[s].onended /\ isPlaying) =>
           /\ isPlaying' = stopAudio(Playback).isPlaying
           /\ isPaused' = stopAudio(Playback).isPaused
           /\ state'.result = state.result
           /\ audioSourceRef' = stopAudio(Playback).audioSourceRef ]_vars

\* C21: whenever the session is Playing or Paused, a source is bound that has
\* been started and has neither been stopped nor ended (or has just ended,
\* its "ended" event not yet dispatched).
C21_ActiveHasSource ==
  (isPlaying \/ isPaused) =>
     /\ audioSourceRef # NoSource
     /\ \/ sources[audioSourceRef].status = "playing"
        \/ sources[audioSourceRef].endedEvent

\* C22: whenever the session is Playing or Paused or a source plays, a result
\* with audio is published and the audio played is that result's buffer.
C22_AudioHasResult ==
  (isPlaying \/ isPaused \/ Playing # {}) =>
     /\ HasAudio
     /\ \A s \in Playing : sources[s].buffer = state.result[1].audioBuffer

\* C23: an invocation sets the synthesis-failure error only if its call of the
\* synthesis collaborator failed, and then no result with audio is published.
C23_SynthesisFailureIsSynthesis ==
  [][ \A i \in Invocations :
        (StepOf(i) /\ state' # state /\ state'.error = "SynthesisFailed") =>
           /\ invs'[i].outcome = "SynthesisFailed"
           /\ ~(state'.result # NULL /\ state'.result[1].audioBuffer # NoBuffer) ]_vars

====
